---- MODULE Spec2Model ----
(***************************************************************************)
(* Model of src/main.rs: the solver for the "Arrows and Arrows" challenge. *)
(* A toroidal grid of arrows is loaded from a file, every cell is traced   *)
(* until a coordinate repeats, the longest cycle is kept and printed.      *)
(*                                                                         *)
(* Coordinates are 0-based as in the source; TLA+ sequences are 1-based,   *)
(* so pointers[y + 1][x + 1] is the source's self.pointers[y][x].          *)
(***************************************************************************)
EXTENDS Integers, Sequences, FiniteSets, TLC

----------------------------------------------------------------------------
(* Bounds of the model.                                                    *)

\* Largest number of grid cells (and of content lines) an input file holds.
MaxCells == 4

\* Largest number of space-separated tokens on the dimension line.
MaxTokens == 3

\* Largest |delta| and largest dimension tried on step() in StepSpec.
MaxDelta == 7

MaxDim == 3

\* Largest coordinate a direct caller passes to get_cycle_from.
MaxCoord == 2

----------------------------------------------------------------------------
(* Values.                                                                 *)

\* uint is the machine word; `as uint` of a negative int wraps modulo the
\* word size.  The model keeps the largest power of two its integers hold.
UintModulus == 2^30

AsUint(v) == v % UintModulus

Directions == {"Up", "Down", "Left", "Right"}

\* The glyphs of a content line: the four arrows and one foreign character.
Glyphs == {"^", "v", "<", ">", "x"}

BadDirection == "panic"

from_glyph(c) ==
    CASE c = "^" -> "Up"
      [] c = "v" -> "Down"
      [] c = "<" -> "Left"
      [] c = ">" -> "Right"
      [] OTHER   -> BadDirection

to_glyph(d) ==
    CASE d = "Up"    -> "^"
      [] d = "Down"  -> "v"
      [] d = "Left"  -> "<"
      [] d = "Right" -> ">"

----------------------------------------------------------------------------
(* step: one move along an axis of the torus.                               *)

\* Mutant: the negative branch is off by one.
step_off_by_one(pos, delta, dimension) ==
    LET dim == dimension
        new == pos + delta
    IN  IF new >= 0 THEN AsUint(new % dim) ELSE AsUint(dim + new - 1)

step(pos, delta, dimension) ==
    LET dim == dimension
        new == pos + delta
    IN  IF new >= 0 THEN AsUint(new % dim) ELSE AsUint(dim + new)

----------------------------------------------------------------------------
(* The dimension line: tokens are sequences of characters.                  *)

DigitChars == <<"0", "1", "2", "3", "4", "5", "6", "7", "8", "9">>

IsDigit(ch) == \E k \in 1..10 : DigitChars[k] = ch

DigitVal(ch) == (CHOOSE k \in 1..10 : DigitChars[k] = ch) - 1

RECURSIVE DecimalValue(_, _)
DecimalValue(tok, acc) ==
    IF tok = << >> THEN acc
    ELSE DecimalValue(Tail(tok), acc * 10 + DigitVal(Head(tok)))

\* from_str::<uint>: Some(n) for a non-empty string of digits, else None.
\* The Option is a sequence of length at most one.
from_str(tok) ==
    IF tok # << >> /\ \A k \in 1..Len(tok) : IsDigit(tok[k])
    THEN << DecimalValue(tok, 0) >>
    ELSE << >>

RECURSIVE filter_map_from_str(_)
filter_map_from_str(toks) ==
    IF toks = << >> THEN << >>
    ELSE from_str(Head(toks)) \o filter_map_from_str(Tail(toks))

\* Tokens a dimension line is made of: the numbers 0..MaxCells, a number
\* with a leading zero, the empty token two adjacent spaces leave, a word
\* and a negative number.
Tokens ==
    { << DigitChars[n + 1] >> : n \in 0..MaxCells }
        \cup { <<"0", "2">>, << >>, <<"x">>, <<"-", "1">> }

\* line.trim().split(' '): at least one token; a trimmed line neither
\* starts nor ends with a space, so only a line that is empty altogether
\* starts or ends with the empty token.
DimLines ==
    { l \in UNION { [1..n -> Tokens] : n \in 1..MaxTokens } :
        Len(l) > 1 => (l[1] # << >> /\ l[Len(l)] # << >>) }

----------------------------------------------------------------------------
(* State.                                                                  *)

VARIABLES
    pc,           \* where the program is
    dims,         \* from_input_file: the integers collected from the dimension line
    width,        \* GraphMeta.width
    height,       \* GraphMeta.height
    pointers,     \* GraphMeta.pointers, row-major
    caller,       \* who called get_cycle_from: "scan" or "client"
    arg_x,        \* get_cycle_from: parameter x
    arg_y,        \* get_cycle_from: parameter y
    cur_x,        \* get_cycle_from: cur_x
    cur_y,        \* get_cycle_from: cur_y
    i,            \* get_cycle_from: i
    cycle,        \* get_cycle_from: cycle, the nodes recorded so far
    node_coords,  \* get_cycle_from: node_coords, pairs <<coordinate, index>>
    returned,     \* whether the current get_cycle_from call has returned
    result,       \* the Cycle the last get_cycle_from call returned
    x,            \* get_max_cycle: x
    y,            \* get_max_cycle: y
    max_length,   \* get_max_cycle: max_length
    max_cycle,    \* get_max_cycle: max_cycle
    traces,       \* log: pairs <<start, Cycle>> of the calls the scan made
    calls,        \* log: number of get_cycle_from calls made
    reads,        \* log: grid cells read by the current call
    out,          \* lines written to stdout
    err,          \* the panic message kind, "" when none
    s_pos,        \* step(): pos
    s_delta,      \* step(): delta
    s_dim,        \* step(): dimension
    s_ret,        \* step(): the value returned
    s_called      \* step(): whether the call was made

vars == << pc, dims, width, height, pointers, caller, arg_x, arg_y, cur_x,
           cur_y, i, cycle, node_coords, returned, result, x, y, max_length,
           max_cycle, traces, calls, reads, out, err, s_pos, s_delta, s_dim,
           s_ret, s_called >>

graph_vars == << width, height, pointers >>
call_vars  == << caller, arg_x, arg_y, cur_x, cur_y, i, cycle, node_coords,
                 returned, result, calls, reads >>
scan_vars  == << x, y, max_length, max_cycle, traces >>
step_vars  == << s_pos, s_delta, s_dim, s_ret, s_called >>

Node(nx, ny, p) == [x |-> nx, y |-> ny, pointer |-> p]

Coord(n) == << n.x, n.y >>

contains_key(map, key) == \E e \in map : e[1] = key

get(map, key) == (CHOOSE e \in map : e[1] = key)[2]

\* Mutant: an insertion forgets the keys inserted before.
insert_forgetful(map, key, val) == { << key, val >> }

insert(map, key, val) == { e \in map : e[1] # key } \cup { << key, val >> }

Init ==
    /\ pc = "main"
    /\ dims = << >>
    /\ width = 0
    /\ height = 0
    /\ pointers = << >>
    /\ caller = "none"
    /\ arg_x = 0
    /\ arg_y = 0
    /\ cur_x = 0
    /\ cur_y = 0
    /\ i = 0
    /\ cycle = << >>
    /\ node_coords = {}
    /\ returned = FALSE
    /\ result = << >>
    /\ x = 0
    /\ y = 0
    /\ max_length = 0
    /\ max_cycle = << >>
    /\ traces = {}
    /\ calls = 0
    /\ reads = 0
    /\ out = << >>
    /\ err = ""
    /\ s_pos = 0
    /\ s_delta = 0
    /\ s_dim = 1
    /\ s_ret = 0
    /\ s_called = FALSE

Panic(kind) ==
    /\ pc' = "panic"
    /\ err' = kind

----------------------------------------------------------------------------
(* main and GraphMeta::from_input_file.                                     *)

\* main: a wrong argument count prints a message and returns.
MainArgs ==
    /\ pc = "main"
    /\ \E nargs \in 1..3 :
         IF nargs # 2
         THEN /\ out' = Append(out, <<"Insufficient num args! _uitting.">>)
              /\ pc' = "done"
         ELSE /\ pc' = "load"
              /\ out' = out
    /\ UNCHANGED << dims, graph_vars, call_vars, scan_vars, err, step_vars >>

\* file_lines[0] of a file without lines: index out of bounds.
NoDimLine ==
    /\ pc = "load"
    /\ Panic("index out of bounds")
    /\ UNCHANGED << dims, graph_vars, call_vars, scan_vars, out, step_vars >>

\* Mutant: integers after the second are ignored.
ParseDimsBody_at_least_two(line) ==
    LET collected == filter_map_from_str(line)
    IN  /\ dims' = collected
        /\ IF Len(collected) >= 2
           THEN /\ width' = collected[1]
                /\ height' = collected[2]
                /\ pc' = "lines"
                /\ err' = err
           ELSE /\ Panic("Dimensions line has n elements when it must have 2")
                /\ UNCHANGED << width, height >>
        /\ UNCHANGED << pointers, call_vars, scan_vars, out, step_vars >>

ParseDimsBody(line) ==
    LET collected == filter_map_from_str(line)
    IN  /\ dims' = collected
        /\ IF Len(collected) = 2
           THEN /\ width' = collected[1]
                /\ height' = collected[2]
                /\ pc' = "lines"
                /\ err' = err
           ELSE /\ Panic("Dimensions line has n elements when it must have 2")
                /\ UNCHANGED << width, height >>
        /\ UNCHANGED << pointers, call_vars, scan_vars, out, step_vars >>

\* from_input_file, the purported bounds of the grid.
ParseDims ==
    /\ pc = "load"
    /\ \E line \in DimLines : ParseDimsBody(line)

ReadLineBody(line) ==
    LET line_pointers == [k \in 1..Len(line) |-> from_glyph(line[k])]
    IN  /\ IF \E k \in 1..Len(line) : line_pointers[k] = BadDirection
           THEN /\ Panic("not a recognizable direction")
                /\ pointers' = pointers
           ELSE IF Len(line_pointers) # width
           THEN /\ Panic("Line contains n pointers when it should contain width")
                /\ pointers' = pointers
           ELSE /\ pointers' = Append(pointers, line_pointers)
                /\ UNCHANGED << pc, err >>
        /\ UNCHANGED << dims, width, height, call_vars, scan_vars, out,
                        step_vars >>

\* from_input_file, one iteration of the loop over the content lines.  The
\* file holds at most MaxCells content lines and MaxCells glyphs.
ReadLine ==
    /\ pc = "lines"
    /\ Len(pointers) < MaxCells
    /\ \E n \in 0..MaxCells :
         /\ (Len(pointers) + 1) * n <= MaxCells
         /\ \E line \in [1..n -> Glyphs] : ReadLineBody(line)

\* from_input_file, after the last content line.
EndOfLines ==
    /\ pc = "lines"
    /\ IF Len(pointers) # height
       THEN Panic("File contains n lines of pointers when it should contain height")
       ELSE /\ pc' = "loaded"
            /\ err' = err
    /\ UNCHANGED << dims, graph_vars, call_vars, scan_vars, out, step_vars >>

----------------------------------------------------------------------------
(* GraphMeta::get_cycle_from.                                               *)

\* The successor of (cx, cy): the match on the pointer read there.
NeighborOf(pointer, cx, cy) ==
    CASE pointer = "Up"    -> << cx, step(cy, -1, height) >>
      [] pointer = "Down"  -> << cx, step(cy, 1, height) >>
      [] pointer = "Left"  -> << step(cx, -1, width), cy >>
      [] pointer = "Right" -> << step(cx, 1, width), cy >>

\* A direct caller of the public get_cycle_from, with any coordinates.
ClientCall ==
    /\ pc = "loaded"
    /\ \E ax \in 0..MaxCoord, ay \in 0..MaxCoord :
         /\ arg_x' = ax
         /\ arg_y' = ay
    /\ caller' = "client"
    /\ calls' = calls + 1
    /\ reads' = 0
    /\ returned' = FALSE
    /\ pc' = "enter"
    /\ UNCHANGED << dims, graph_vars, cur_x, cur_y, i, cycle, node_coords,
                    result, scan_vars, out, err, step_vars >>

\* Mutant: the bounds check lets x = width and y = height through.
GetCycleEnter_lax ==
    /\ pc = "enter"
    /\ IF arg_x > width \/ arg_y > height
       THEN /\ Panic("x or y position out of bounds.")
            /\ UNCHANGED << cycle, node_coords, cur_x, cur_y, i >>
       ELSE /\ cycle' = << >>
            /\ node_coords' = {}
            /\ cur_x' = arg_x
            /\ cur_y' = arg_y
            /\ i' = 0
            /\ pc' = "walk"
            /\ err' = err
    /\ UNCHANGED << dims, graph_vars, caller, arg_x, arg_y, returned, result,
                    calls, reads, scan_vars, out, step_vars >>

\* get_cycle_from, the bounds check and the initialisation of the locals.
GetCycleEnter ==
    /\ pc = "enter"
    /\ IF arg_x >= width \/ arg_y >= height
       THEN /\ Panic("x or y position out of bounds.")
            /\ UNCHANGED << cycle, node_coords, cur_x, cur_y, i >>
       ELSE /\ cycle' = << >>
            /\ node_coords' = {}
            /\ cur_x' = arg_x
            /\ cur_y' = arg_y
            /\ i' = 0
            /\ pc' = "walk"
            /\ err' = err
    /\ UNCHANGED << dims, graph_vars, caller, arg_x, arg_y, returned, result,
                    calls, reads, scan_vars, out, step_vars >>

\* get_cycle_from, one iteration of the while loop.
WalkStep ==
    /\ pc = "walk"
    /\ ~ contains_key(node_coords, << cur_x, cur_y >>)
    /\ LET pointer == pointers[cur_y + 1][cur_x + 1]
           next    == NeighborOf(pointer, cur_x, cur_y)
       IN  /\ node_coords' = insert(node_coords, << cur_x, cur_y >>, i)
           /\ cycle' = Append(cycle, Node(cur_x, cur_y, pointer))
           /\ cur_x' = next[1]
           /\ cur_y' = next[2]
           /\ i' = i + 1
    /\ reads' = reads + 1
    /\ UNCHANGED << pc, dims, graph_vars, caller, arg_x, arg_y, returned,
                    result, calls, scan_vars, out, err, step_vars >>

\* Mutant: the slice starts one node early.
slice_from_early(v, start) == SubSeq(v, start, Len(v))

\* cycle.slice_from_or_fail(&cycle_start), cloned.
slice_from(v, start) == SubSeq(v, start + 1, Len(v))

\* Mutant: the prelude is never trimmed.
TrimPrelude_untrimmed ==
    /\ pc = "walk"
    /\ contains_key(node_coords, << cur_x, cur_y >>)
    /\ result' = cycle
    /\ returned' = TRUE
    /\ pc' = IF caller = "scan" THEN "compare" ELSE "done"
    /\ UNCHANGED << dims, graph_vars, caller, arg_x, arg_y, cur_x, cur_y, i,
                    cycle, node_coords, calls, reads, scan_vars, out, err,
                    step_vars >>

\* get_cycle_from, after the loop: the prelude is trimmed off.
TrimPrelude ==
    /\ pc = "walk"
    /\ contains_key(node_coords, << cur_x, cur_y >>)
    /\ LET cycle_start == get(node_coords, << cur_x, cur_y >>)
       IN  result' = IF cycle_start # 0
                     THEN slice_from(cycle, cycle_start)
                     ELSE cycle
    /\ returned' = TRUE
    /\ pc' = IF caller = "scan" THEN "compare" ELSE "done"
    /\ UNCHANGED << dims, graph_vars, caller, arg_x, arg_y, cur_x, cur_y, i,
                    cycle, node_coords, calls, reads, scan_vars, out, err,
                    step_vars >>

----------------------------------------------------------------------------
(* GraphMeta::get_max_cycle.                                                *)

\* Mutant: max_length starts at 1.
MaxCycleBegin_from_one ==
    /\ pc = "loaded"
    /\ max_length' = 1
    /\ max_cycle' = << >>
    /\ x' = 0
    /\ y' = 0
    /\ pc' = "scan"
    /\ UNCHANGED << dims, graph_vars, call_vars, traces, out, err,
                    step_vars >>

\* main calls get_max_cycle: its locals and the first range.
MaxCycleBegin ==
    /\ pc = "loaded"
    /\ max_length' = 0
    /\ max_cycle' = << >>
    /\ x' = 0
    /\ y' = 0
    /\ pc' = "scan"
    /\ UNCHANGED << dims, graph_vars, call_vars, traces, out, err,
                    step_vars >>

\* The inner loop calls get_cycle_from(x, y).
ScanCall ==
    /\ pc = "scan"
    /\ x < width
    /\ y < height
    /\ arg_x' = x
    /\ arg_y' = y
    /\ caller' = "scan"
    /\ calls' = calls + 1
    /\ reads' = 0
    /\ returned' = FALSE
    /\ pc' = "enter"
    /\ UNCHANGED << dims, graph_vars, cur_x, cur_y, i, cycle, node_coords,
                    result, scan_vars, out, err, step_vars >>

\* Mutant: max_length is never updated.
ScanCompare_stale_length ==
    /\ pc = "compare"
    /\ IF Len(result) > max_length
       THEN /\ max_length' = max_length
            /\ max_cycle' = result
       ELSE UNCHANGED << max_length, max_cycle >>
    /\ traces' = traces \cup { << << x, y >>, result >> }
    /\ y' = y + 1
    /\ pc' = "scan"
    /\ UNCHANGED << dims, graph_vars, call_vars, x, out, err, step_vars >>

\* Mutant: a cycle as long as the longest replaces it.
ScanCompare_last_wins ==
    /\ pc = "compare"
    /\ IF Len(result) >= max_length
       THEN /\ max_length' = Len(result)
            /\ max_cycle' = result
       ELSE UNCHANGED << max_length, max_cycle >>
    /\ traces' = traces \cup { << << x, y >>, result >> }
    /\ y' = y + 1
    /\ pc' = "scan"
    /\ UNCHANGED << dims, graph_vars, call_vars, x, out, err, step_vars >>

\* The body of the inner loop after the call returned.
ScanCompare ==
    /\ pc = "compare"
    /\ IF Len(result) > max_length
       THEN /\ max_length' = Len(result)
            /\ max_cycle' = result
       ELSE UNCHANGED << max_length, max_cycle >>
    /\ traces' = traces \cup { << << x, y >>, result >> }
    /\ y' = y + 1
    /\ pc' = "scan"
    /\ UNCHANGED << dims, graph_vars, call_vars, x, out, err, step_vars >>

\* The inner range is exhausted: the outer loop advances.
ScanNextColumn ==
    /\ pc = "scan"
    /\ x < width
    /\ y >= height
    /\ x' = x + 1
    /\ y' = 0
    /\ UNCHANGED << pc, dims, graph_vars, call_vars, max_length, max_cycle,
                    traces, out, err, step_vars >>

\* The outer range is exhausted: get_max_cycle returns max_cycle.
ScanReturn ==
    /\ pc = "scan"
    /\ x >= width
    /\ pc' = "print"
    /\ UNCHANGED << dims, graph_vars, call_vars, scan_vars, out, err,
                    step_vars >>

----------------------------------------------------------------------------
(* print_cycle and the end of main.                                         *)

RECURSIVE paint(_, _)
paint(lines, nodes) ==
    IF nodes = << >> THEN lines
    ELSE LET node == Head(nodes)
         IN  paint([lines EXCEPT ![node.y + 1][node.x + 1] =
                                     to_glyph(node.pointer)],
                   Tail(nodes))

print_cycle(c) ==
    paint([r \in 1..height |-> [k \in 1..width |-> " "]], c)

\* main: the two header lines, then print_cycle.
MainPrint ==
    /\ pc = "print"
    /\ out' = out \o << << "Longest cycle: ", Len(max_cycle) >>,
                        << "Position:" >> >>
                  \o print_cycle(max_cycle)
    /\ pc' = "done"
    /\ UNCHANGED << dims, graph_vars, call_vars, scan_vars, err, step_vars >>

----------------------------------------------------------------------------

Next ==
    \/ MainArgs
    \/ NoDimLine
    \/ ParseDims
    \/ ReadLine
    \/ EndOfLines
    \/ ClientCall
    \/ GetCycleEnter
    \/ WalkStep
    \/ TrimPrelude
    \/ MaxCycleBegin
    \/ ScanCall
    \/ ScanCompare
    \/ ScanNextColumn
    \/ ScanReturn
    \/ MainPrint

Spec == Init /\ [][Next]_vars

\* get_cycle_from runs without suspension: while the loop can iterate or
\* exit, it does.
LiveSpec == Spec /\ WF_vars(WalkStep \/ TrimPrelude)

----------------------------------------------------------------------------
(* step() on its own: any position of any dimension, any delta.             *)

StepInit ==
    /\ Init
    /\ pc = "main"

StepInputs ==
    /\ pc = "main"
    /\ ~ s_called
    /\ \E d \in 1..MaxDim, p \in 0..(MaxDim - 1), dl \in (-MaxDelta)..MaxDelta :
         /\ p < d
         /\ s_dim' = d
         /\ s_pos' = p
         /\ s_delta' = dl
    /\ pc' = "step"
    /\ UNCHANGED << dims, graph_vars, call_vars, scan_vars, out, err, s_ret,
                    s_called >>

StepCall ==
    /\ pc = "step"
    /\ ~ s_called
    /\ s_ret' = step(s_pos, s_delta, s_dim)
    /\ s_called' = TRUE
    /\ UNCHANGED << pc, dims, graph_vars, call_vars, scan_vars, out, err,
                    s_pos, s_delta, s_dim >>

StepNext == StepInputs \/ StepCall

StepSpec == StepInit /\ [][StepNext]_vars

----------------------------------------------------------------------------
(* Vocabulary of the properties.                                            *)

ArgsMessage == <<"Insufficient num args! _uitting.">>
DimsPanic   == "Dimensions line has n elements when it must have 2"
BoundsPanic == "x or y position out of bounds."

InGrid(c) == c[1] \in 0..(width - 1) /\ c[2] \in 0..(height - 1)

GridCoords == (0..(width - 1)) \X (0..(height - 1))

\* The Direction the grid stores at coordinate c.
Stored(c) == pointers[c[2] + 1][c[1] + 1]

\* The toroidal neighbour of c in direction d, written out case by case.
Torus(d, c) ==
    CASE d = "Up"    -> << c[1], IF c[2] = 0 THEN height - 1 ELSE c[2] - 1 >>
      [] d = "Down"  -> << c[1], IF c[2] = height - 1 THEN 0 ELSE c[2] + 1 >>
      [] d = "Left"  -> << IF c[1] = 0 THEN width - 1 ELSE c[1] - 1, c[2] >>
      [] d = "Right" -> << IF c[1] = width - 1 THEN 0 ELSE c[1] + 1, c[2] >>

Successor(c) == Torus(Stored(c), c)

RECURSIVE Iterate(_, _)
Iterate(c, n) == IF n = 0 THEN c ELSE Iterate(Successor(c), n - 1)

LeadsTo(c, d) == \E n \in 0..(width * height) : Iterate(c, n) = d

CoordsOf(c) == { Coord(c[k]) : k \in 1..Len(c) }

Distinct(c) ==
    \A j, k \in 1..Len(c) : j # k => Coord(c[j]) # Coord(c[k])

\* The order of the scan: x first, then y.
ScanBefore(a, b) == a[1] < b[1] \/ (a[1] = b[1] /\ a[2] < b[2])

\* get_max_cycle has returned and main has not printed yet.
ScanOver == pc = "print"

----------------------------------------------------------------------------
(* C1: every Cycle get_cycle_from returns for an in-bounds start is closed  *)
(* and simple: each node carries the stored Direction, each node's          *)
(* toroidal successor is the next node, the last node's successor is the    *)
(* first node, and no coordinate occurs twice.                              *)
C1_ClosedSimple ==
    returned =>
        /\ Len(result) >= 1
        /\ \A k \in 1..Len(result) :
             /\ InGrid(Coord(result[k]))
             /\ result[k].pointer = Stored(Coord(result[k]))
             /\ Successor(Coord(result[k]))
                  = Coord(result[(k % Len(result)) + 1])
        /\ Distinct(result)

C1_Witness ==
    /\ returned
    /\ Len(result) >= 2
    /\ << arg_x, arg_y >> \notin CoordsOf(result)

----------------------------------------------------------------------------
(* C2: get_max_cycle returns a Cycle of maximum length: when the scan is    *)
(* over every coordinate of the grid was traced, max_cycle is at least as   *)
(* long as every trace, and it is one of the traces when the grid has a     *)
(* cell.                                                                    *)
C2_MaxLength ==
    ScanOver =>
        /\ { t[1] : t \in traces } = GridCoords
        /\ \A t \in traces : Len(max_cycle) >= Len(t[2])
        /\ GridCoords # {} => \E t \in traces : t[2] = max_cycle

C2_Witness ==
    /\ ScanOver
    /\ \E t, u \in traces :
         /\ ScanBefore(t[1], u[1])
         /\ Len(t[2]) < Len(u[2])
    /\ \E t, u \in traces :
         /\ ScanBefore(t[1], u[1])
         /\ Len(t[2]) > Len(u[2])

----------------------------------------------------------------------------
(* C3: the tie-break of get_max_cycle.                                      *)

\* The root of a cycle read as its least coordinate, x first, then y.
Root(c) ==
    CHOOSE a \in CoordsOf(c) : \A b \in CoordsOf(c) : a = b \/ ScanBefore(a, b)

\* The earliest start, in scan order, whose trace is the cycle c.
FirstStart(c) ==
    LET starts == { t[1] : t \in { u \in traces : CoordsOf(u[2]) = CoordsOf(c) } }
    IN  CHOOSE a \in starts : \A b \in starts : a = b \/ ScanBefore(a, b)

\* The cycles that tie with max_cycle: disjoint from it and as long.
Ties ==
    { t[2] : t \in { u \in traces :
                       /\ Len(u[2]) = Len(max_cycle)
                       /\ CoordsOf(u[2]) \cap CoordsOf(max_cycle) = {} } }

\* C3 as claimed: of two disjoint cycles of equal maximum length, max_cycle
\* is the one whose root (its least coordinate) has the smaller x, then the
\* smaller y, also when a cell of small x is a prelude of the other cycle.
C3_RootTieBreak ==
    ScanOver => \A c \in Ties : ScanBefore(Root(max_cycle), Root(c))

\* C3 as amended: of two disjoint cycles of equal maximum length, max_cycle
\* is the one whose earliest start of a trace that reaches it (a cell of the
\* cycle or of a prelude of it) has the smaller x, then the smaller y.
C3_FirstStartTieBreak ==
    ScanOver => \A c \in Ties : ScanBefore(FirstStart(max_cycle), FirstStart(c))

\* A tie that the prelude decides: the other cycle has the smaller root.
C3_Witness ==
    /\ ScanOver
    /\ \E c \in Ties : ScanBefore(Root(c), Root(max_cycle))

----------------------------------------------------------------------------
(* C4: step returns (pos + delta) mod dimension, a value of                 *)
(* 0..dimension-1, for every dimension > 0, every position below it and     *)
(* every signed delta, also when |delta| exceeds the dimension.             *)
C4_StepAnyDelta ==
    s_called =>
        /\ s_ret = (s_pos + s_delta) % s_dim
        /\ s_ret \in 0..(s_dim - 1)

----------------------------------------------------------------------------
(* C5: single steps are total and wrap: whatever Direction a recorded node  *)
(* holds, the walk moves to the one toroidal neighbour of its coordinate,   *)
(* which is inside the grid; from 0 a step of -1 reaches dimension - 1 and  *)
(* from dimension - 1 a step of +1 reaches 0, also when the dimension is 1. *)
C5_SingleStep ==
    (pc = "walk" /\ cycle # << >>) =>
        LET node == cycle[Len(cycle)]
        IN  /\ InGrid(<< cur_x, cur_y >>)
            /\ << cur_x, cur_y >> = Torus(node.pointer, Coord(node))

\* A step of -1 from 0 along an axis of dimension 1, and a wrap on an axis
\* of dimension 3 or more.
C5_Witness ==
    /\ pc = "walk"
    /\ Len(cycle) >= 2
    /\ \E k \in 1..Len(cycle) :
         /\ cycle[k].pointer = "Left" /\ width = 1
    /\ \E k \in 1..Len(cycle) :
         /\ cycle[k].pointer = "Down" /\ cycle[k].y = height - 1 /\ height >= 3

----------------------------------------------------------------------------
(* C6: the walk loop of get_cycle_from terminates, and while it runs it     *)
(* has recorded at most width * height nodes, as many as iterations made,   *)
(* all of distinct coordinates.                                             *)
WalkBound ==
    pc = "walk" =>
        /\ i = Len(cycle)
        /\ Len(cycle) <= width * height
        /\ Distinct(cycle)
        /\ Cardinality(node_coords) = Len(cycle)

C6_WalkTerminates ==
    /\ [] WalkBound
    /\ (pc = "walk") ~> (pc # "walk")

\* A walk that recorded every cell of a grid of three or more cells.
C6_Witness ==
    /\ pc = "walk"
    /\ contains_key(node_coords, << cur_x, cur_y >>)
    /\ Len(cycle) = width * height
    /\ width * height >= 3

----------------------------------------------------------------------------
(* C7: get_cycle_from with x >= width or y >= height panics before it       *)
(* reads a cell and returns nothing; the calls get_max_cycle makes are in   *)
(* bounds and never panic that way.                                         *)
C7_OutOfBounds ==
    /\ (caller # "none" /\ pc # "enter" /\ ~ InGrid(<< arg_x, arg_y >>)) =>
          /\ pc = "panic"
          /\ err = BoundsPanic
          /\ reads = 0
          /\ ~ returned
    /\ err = BoundsPanic => (~ InGrid(<< arg_x, arg_y >>) /\ caller = "client")
    /\ caller = "scan" => InGrid(<< arg_x, arg_y >>)

C7_Witness ==
    /\ err = BoundsPanic
    /\ width > 0
    /\ height > 0
    /\ arg_x < width
    /\ arg_y >= height

----------------------------------------------------------------------------
(* C8: get_max_cycle returns the empty Cycle only for a grid without cells, *)
(* and then without calling get_cycle_from; a grid with cells yields a      *)
(* Cycle of length >= 1, and of length 1 when one cell is its own successor *)
(* and every cell leads into it.                                            *)
SelfLoopGrid ==
    \E c \in GridCoords :
        /\ Successor(c) = c
        /\ \A d \in GridCoords : LeadsTo(d, c)

C8_EmptyOnlyDegenerate ==
    ScanOver =>
        /\ GridCoords # {} => Len(max_cycle) >= 1
        /\ GridCoords = {} => (max_cycle = << >> /\ calls = 0)
        /\ (GridCoords # {} /\ SelfLoopGrid) => Len(max_cycle) = 1

C8_Witness ==
    /\ ScanOver
    /\ width * height >= 3
    /\ SelfLoopGrid

----------------------------------------------------------------------------
----------------------------------------------------------------------------
(* C10: with k the index at which the coordinate that stops the walk was    *)
(* first recorded, get_cycle_from returns the recorded nodes from index k   *)
(* on, in order, and all of them when k = 0; the start is in the returned   *)
(* Cycle exactly when k = 0; each node carries the stored Direction.        *)
FirstVisit ==
    CHOOSE k \in 0..(Len(cycle) - 1) :
        /\ Coord(cycle[k + 1]) = << cur_x, cur_y >>
        /\ \A j \in 0..(k - 1) : Coord(cycle[j + 1]) # << cur_x, cur_y >>

C10_PreludeTrim ==
    returned =>
        /\ Len(result) = Len(cycle) - FirstVisit
        /\ \A j \in 1..Len(result) : result[j] = cycle[FirstVisit + j]
        /\ FirstVisit = 0 => result = cycle
        /\ (<< arg_x, arg_y >> \in CoordsOf(result)) <=> (FirstVisit = 0)
        /\ \A j \in 1..Len(result) :
             result[j].pointer = Stored(Coord(result[j]))

C10_Witness ==
    /\ returned
    /\ FirstVisit >= 2
    /\ Len(result) >= 2

====
